---- MODULE Spec2Model ----
(***************************************************************************)
(* Model of tutube.py: a WSGI application (YoutubeDownloader) that serves   *)
(* each request on its own thread (ThreadingWSGIServer), resolves the       *)
(* target URL with youtube_dl, materialises the audio file through          *)
(* CachingDownloader._download under the flock-based lock() context         *)
(* manager, and answers with the cached file or an HTTP error.              *)
(*                                                                         *)
(* Strings the code slices (PATH_INFO, QUERY_STRING, the target URL) are    *)
(* sequences of one-character strings; other strings are TLA+ strings.      *)
(* The empty string "" stands for Python's None / falsy argument.           *)
(***************************************************************************)
EXTENDS Integers, Sequences, FiniteSets, TLC

\* ------------------------------------------------------------------ bounds
\* Number of requests the server receives in a behaviour of Spec.
MaxRequests == 2

\* ThreadingMixIn starts a thread per request: thread n serves the n-th
\* request that arrives. SpecRetry has one request more than Spec.
Threads == 1..(MaxRequests + 1)

\* ------------------------------------------------------------------ inputs
Methods == {"GET", "POST"}
PathInfos == {<<>>, <<"/">>, <<"/", "a">>, <<"/", "s">>, <<"/", "b">>,
              <<"/", "p">>, <<"/", "e">>, <<"/", "x">>}
QueryStrings == {<<>>, <<"/">>}

\* ------------------------------------------------------------- pure helpers
Range(f) == {f[x] : x \in DOMAIN f}

RECURSIVE LStrip(_)
LStrip(s) == IF s # <<>> /\ Head(s) = "/" THEN LStrip(Tail(s)) ELSE s

RECURSIVE RStrip(_)
RStrip(s) ==
    IF s # <<>> /\ s[Len(s)] = "/" THEN RStrip(SubSeq(s, 1, Len(s) - 1)) ELSE s

\* A slip: only the leading "/" are stripped.
StripLeading(s) == LStrip(s)

\* str.strip("/")
Strip(s) == RStrip(LStrip(s))

\* "{PATH_INFO}?{QUERY_STRING}".format(**environ).strip("/")
VideoUrl(path_info, query_string) == Strip(path_info \o <<"?">> \o query_string)

\* A slip: the file is named after the title instead of the id.
VideoPathByTitle(info) ==
    [dir |-> info.provider, stem |-> info.title, suffix |-> "mp3"]

\* VideoInfo.path: Path(provider) / ("%s.mp3" % id), as directory, stem, suffix
VideoPath(info) == [dir |-> info.provider, stem |-> info.id, suffix |-> "mp3"]

\* A slip: the lock is taken on the target file itself.
LockPathSame(p) == p

\* A slip: one lock file for the whole cache instead of one per target.
LockPathGlobal(p) == [dir |-> "", stem |-> "", suffix |-> "lock"]

\* mp3_path.with_suffix(".lock")
LockPath(p) == [p EXCEPT !.suffix = "lock"]

\* ---------------------------------------------------- youtube_dl, resolving
\* What YoutubeDL.extract_info(url, download=False) gives for the URLs of the
\* model: "a..." is a video, "s..." a short form of the same video, "b..."
\* another video, "p..." a playlist of both, "e..." an empty playlist; every
\* other URL raises DownloadError with a message.
RawA == [webpage_url |-> "https://yt/a", extractor |-> "youtube", id |-> "a",
         title |-> "TEST VIDEO"]
RawB == [webpage_url |-> "https://yt/b", extractor |-> "youtube", id |-> "b",
         title |-> "OTHER/VIDEO"]

YdlExtractInfo(url) ==
    CASE Head(url) \in {"a", "s"} -> [raised |-> FALSE, result |-> RawA]
      [] Head(url) = "b" -> [raised |-> FALSE, result |-> RawB]
      [] Head(url) = "p" ->
            [raised |-> FALSE, result |-> [entries |-> <<RawA, RawB>>]]
      [] Head(url) = "e" -> [raised |-> FALSE, result |-> [entries |-> <<>>]]
      [] OTHER -> [raised |-> TRUE, message |-> "ERROR: Unsupported URL"]

\* The message a failing YoutubeDL.download carries.
YdlDownloadMessage == "ERROR: unable to download video data"

MkVideoInfo(i) ==
    [url |-> i.webpage_url, provider |-> i.extractor, id |-> i.id,
     title |-> i.title]

\* CachingDownloader.extract_info
ExtractInfo(url) ==
    LET r == YdlExtractInfo(url) IN
    IF r.raised
    THEN [raised |-> "CannotDownload", message |-> r.message]
    ELSE LET infos == IF "entries" \in DOMAIN r.result
                      THEN r.result.entries
                      ELSE <<r.result>>
         IN [raised |-> "",
             infos |-> [n \in DOMAIN infos |-> MkVideoInfo(infos[n])]]

AllInfos == {MkVideoInfo(RawA), MkVideoInfo(RawB)}
CachePaths == {VideoPath(i) : i \in AllInfos}
LockPaths == {LockPath(p) : p \in CachePaths}
Providers == {i.provider : i \in AllInfos}

\* ------------------------------------------------------------ HTTP responses
Phrase(status) ==
    CASE status = 400 -> "Bad Request"
      [] status = 405 -> "Method Not Allowed"

Description(status) ==
    CASE status = 400 -> "Bad request syntax or unsupported method"
      [] status = 405 -> "Specified method is invalid for this resource"

\* YoutubeDownloader.HTTPError.__init__ (reason/more "" is None)
HTTPError(status, reason, more) ==
    [status |-> status,
     reason |-> IF reason # "" THEN reason ELSE Phrase(status),
     more |-> IF more # "" THEN more ELSE Description(status)]

\* __call__'s except branch: start_response(str(hte), text/plain); [hte.more]
ErrorResponse(hte) ==
    [kind |-> "error", status |-> hte.status, reason |-> hte.reason,
     ctype |-> "text/plain", body |-> hte.more]

\* do_GET's success branch; the length and the body are the file's content
\* at the time of the stat, the file name is the title.
OkResponse(video, content) ==
    [kind |-> "ok", status |-> 200, reason |-> "OK", ctype |-> "audio/mpeg",
     filename |-> video.title, length |-> content, body |-> content]

\* An exception that leaves __call__: neither HTTPError nor caught in do_GET.
Unhandled(exc, msg) ==
    [kind |-> "unhandled", exc |-> exc, message |-> msg]

NoResponse == [kind |-> "none"]
NoRequest == [method |-> "", url |-> <<>>]

\* ------------------------------------------------------------------- state
VARIABLES
    clients,    \* how many requests arrive
    workers,    \* how many requests the server serves at the same time
    req,        \* per thread: method and target URL of the request it serves
    pc,         \* per thread: where it is in __call__/do_GET/_download/lock
    items,      \* per thread: the VideoInfo list extract_info returned
    idx,        \* per thread: index of the item get_videos is at
    fd,         \* per thread: inode its open lock file refers to (0: none)
    held,       \* per thread: it holds the flock on fd
    failed,     \* per thread: the protected section raised DownloadError
    sent,       \* what the last step sent: the response, with its request
    dirs,       \* provider directories that exist under cache_dir
    files,      \* cache path -> "absent" | "partial" | "complete"
    lockLink,   \* lock path -> inode linked at that name (0: no file)
    dlCalls,    \* cache path -> number of ydl.download calls made for it
    dlFails,    \* cache path -> number of those calls that raised
    returned    \* cache path -> what get_videos calls have returned for it:
                \* the VideoInfo, with the URL that was asked for

vars == <<clients, workers, req, pc, items, idx, fd, held, failed, sent, dirs, files,
          lockLink, dlCalls, dlFails, returned>>

thread == <<req, pc, items, idx, fd, held, failed>>
disk == <<dirs, files, lockLink>>
counts == <<dlCalls, dlFails, returned>>

\* The item a thread is materialising, its cache path and its lock path.
Info(t) == items[t][idx[t]]
Target(t) == VideoPath(Info(t))
TargetLock(t) == LockPath(Target(t))

\* Threads that serve a request now.
Active == {t \in Threads : pc[t] \notin {"new", "done"}}

InLock == {"flock", "downloading", "unlock", "unlink"}
InSection == {"downloading", "unlock"}

\* Inodes of lock files: a fresh one is the least number no directory entry
\* of that lock path and no open descriptor on it refers to.
InodesInUse(lp) ==
    {lockLink[lp]} \cup
    {fd[u] : u \in {v \in Threads : pc[v] \in InLock /\ TargetLock(v) = lp}}
FreshInode(lp) ==
    CHOOSE n \in 1..(Cardinality(Threads) + 1) : n \notin InodesInUse(lp)

InitWith(nclients, nworkers) ==
    /\ clients = nclients
    /\ workers = nworkers
    /\ req = [t \in Threads |-> NoRequest]
    /\ pc = [t \in Threads |-> "new"]
    /\ items = [t \in Threads |-> <<>>]
    /\ idx = [t \in Threads |-> 0]
    /\ fd = [t \in Threads |-> 0]
    /\ held = [t \in Threads |-> FALSE]
    /\ failed = [t \in Threads |-> FALSE]
    /\ sent = [req |-> NoRequest, resp |-> NoResponse]
    /\ dirs = {}
    /\ files = [p \in CachePaths |-> "absent"]
    /\ lockLink = [lp \in LockPaths |-> 0]
    /\ dlCalls = [p \in CachePaths |-> 0]
    /\ dlFails = [p \in CachePaths |-> 0]
    /\ returned = [p \in CachePaths |-> {}]

\* ThreadingWSGIServer: every request is served as it arrives.
Init == InitWith(MaxRequests, MaxRequests)

\* ------------------------------------------------------------ lock(path)
\* fcntl.flock(fp, LOCK_EX) returns for t when no other open file description
\* of the same inode holds the lock; flock locks belong to the inode the
\* descriptor was opened on, whatever the path names afterwards.
\* A slip: the lock is refused while any other thread has the file open.
FlockFreeOfOpeners(t) ==
    \A u \in Threads \ {t} :
        ~(pc[u] \in InLock /\ TargetLock(u) = TargetLock(t) /\ fd[u] = fd[t])

FlockFree(t) ==
    \A u \in Threads \ {t} :
        ~(held[u] /\ TargetLock(u) = TargetLock(t) /\ fd[u] = fd[t])

\* A slip: the release forgets to unlink the lock file.
UnlinkedNever(lp) == lockLink

\* os.unlink(path), FileNotFoundError swallowed: the name is gone afterwards,
\* whichever inode it named.
Unlinked(lp) == [lockLink EXCEPT ![lp] = 0]

\* Lock files and cache files are names of the same directories: what
\* open(path, "w") and unlink(path) do to the cache files, should path name
\* one of them. The file is created or truncated; the name is removed.
Truncated(path) ==
    [p \in CachePaths |-> IF p = path THEN "partial" ELSE files[p]]
Removed(path) ==
    [p \in CachePaths |-> IF p = path THEN "absent" ELSE files[p]]

\* ------------------------------------------------------------ _download
\* Slips: the `not` is dropped; the existence check is dropped.
CacheMissInverted(p) == files[p] # "absent"
CacheMissAlways(p) == TRUE

\* `not mp3_path.exists()`
\* A variant: a file that is not complete counts as missing.
CacheMissUnlessComplete(p) == files[p] # "complete"

CacheMiss(p) == files[p] = "absent"

\* get_videos' list comprehension moves to the next item, or returns the list.
Advance(t) ==
    IF idx[t] < Len(items[t])
    THEN /\ idx' = [idx EXCEPT ![t] = idx[t] + 1]
         /\ pc' = [pc EXCEPT ![t] = "check"]
         /\ UNCHANGED returned
    ELSE /\ pc' = [pc EXCEPT ![t] = "respond"]
         /\ returned' = [p \in CachePaths |->
                IF \E n \in DOMAIN items[t] : VideoPath(items[t][n]) = p
                THEN returned[p] \cup
                        {[info |-> CHOOSE i \in Range(items[t]) :
                                                VideoPath(i) = p,
                          url |-> req[t].url]}
                ELSE returned[p]]
         /\ UNCHANGED idx

\* A step that ends no request sends nothing.
Silent == sent' = [req |-> NoRequest, resp |-> NoResponse]

\* The request r is answered: its thread ends.
Finish(t, r, response) ==
    /\ sent' = [req |-> r, resp |-> response]
    /\ req' = [req EXCEPT ![t] = NoRequest]
    /\ pc' = [pc EXCEPT ![t] = "done"]
    /\ items' = [items EXCEPT ![t] = <<>>]
    /\ idx' = [idx EXCEPT ![t] = 0]
    /\ failed' = [failed EXCEPT ![t] = FALSE]

\* ------------------------------------------------------------------ actions
\* A slip: a dispatch that hands every method to do_GET.
HasHandlerAny(method) == TRUE

\* getattr(self, "do_%s" % REQUEST_METHOD, None) is not None: do_GET is the
\* only do_ attribute of YoutubeDownloader.
HasHandler(method) == method = "GET"

\* __call__ and do_GET up to and including extract_info.
Request(t, method, path_info, query_string) ==
    /\ pc[t] = "new"
    /\ t <= clients
    /\ t > 1 => pc[t - 1] # "new"
    /\ Cardinality(Active) < workers
    /\ LET video_url == VideoUrl(path_info, query_string)
           environ == [method |-> method, url |-> video_url]
           r == ExtractInfo(video_url)
       IN IF ~HasHandler(method)
          THEN Finish(t, environ, ErrorResponse(HTTPError(405, "", "")))
          ELSE IF video_url = <<"?">>
          THEN Finish(t, environ, ErrorResponse(
                    HTTPError(400, "", "no URL provided")))
          ELSE IF r.raised = "CannotDownload"
          THEN Finish(t, environ, ErrorResponse(
                    HTTPError(400, "Cannot download", r.message)))
          ELSE /\ req' = [req EXCEPT ![t] = environ]
               /\ items' = [items EXCEPT ![t] = r.infos]
               /\ idx' = [idx EXCEPT ![t] = IF r.infos = <<>> THEN 0 ELSE 1]
               /\ pc' = [pc EXCEPT ![t] =
                            IF r.infos = <<>> THEN "respond" ELSE "check"]
               /\ Silent
               /\ UNCHANGED failed
    /\ UNCHANGED <<clients, workers, fd, held, disk, counts>>

\* _download: mkdir(exist_ok=True) of the provider directory, then the
\* existence check that decides between the hit and the miss path.
Check(t) ==
    /\ pc[t] = "check"
    /\ dirs' = dirs \cup {Target(t).dir}
    /\ IF CacheMiss(Target(t))
       THEN /\ pc' = [pc EXCEPT ![t] = "open"]
            /\ UNCHANGED <<idx, returned>>
       ELSE Advance(t)
    /\ Silent
    /\ UNCHANGED <<clients, workers, req, items, fd, held, failed, files, lockLink,
                   dlCalls, dlFails>>

\* lock: open(path, "w") creates the lock file when its name is free, and
\* opens the inode the name refers to otherwise.
Open(t) ==
    /\ pc[t] = "open"
    /\ LET lp == TargetLock(t) IN
       IF lockLink[lp] = 0
       THEN /\ lockLink' = [lockLink EXCEPT ![lp] = FreshInode(lp)]
            /\ fd' = [fd EXCEPT ![t] = FreshInode(lp)]
       ELSE /\ fd' = [fd EXCEPT ![t] = lockLink[lp]]
            /\ UNCHANGED lockLink
    /\ files' = Truncated(TargetLock(t))
    /\ pc' = [pc EXCEPT ![t] = "flock"]
    /\ Silent
    /\ UNCHANGED <<clients, workers, req, items, idx, held, failed, dirs, counts>>

\* lock: flock(fp, LOCK_EX) returns, the section starts: ydl.download is
\* called.
Flock(t) ==
    /\ pc[t] = "flock"
    /\ FlockFree(t)
    /\ held' = [held EXCEPT ![t] = TRUE]
    /\ dlCalls' = [dlCalls EXCEPT ![Target(t)] = @ + 1]
    /\ pc' = [pc EXCEPT ![t] = "downloading"]
    /\ Silent
    /\ UNCHANGED <<clients, workers, req, items, idx, fd, failed, disk, dlFails,
                   returned>>

\* ydl.download at work: the target file is there but not finished.
DownloadWrite(t) ==
    /\ pc[t] = "downloading"
    /\ files[Target(t)] # "partial"
    /\ files' = [files EXCEPT ![Target(t)] = "partial"]
    /\ Silent
    /\ UNCHANGED <<clients, workers, thread, dirs, lockLink, counts>>

\* ydl.download returns: the target file is finished.
DownloadOk(t) ==
    /\ pc[t] = "downloading"
    /\ files' = [files EXCEPT ![Target(t)] = "complete"]
    /\ pc' = [pc EXCEPT ![t] = "unlock"]
    /\ Silent
    /\ UNCHANGED <<clients, workers, req, items, idx, fd, held, failed, dirs,
                   lockLink, counts>>

\* ydl.download raises DownloadError; whatever it wrote stays.
DownloadFail(t) ==
    /\ pc[t] = "downloading"
    /\ failed' = [failed EXCEPT ![t] = TRUE]
    /\ dlFails' = [dlFails EXCEPT ![Target(t)] = @ + 1]
    /\ pc' = [pc EXCEPT ![t] = "unlock"]
    /\ Silent
    /\ UNCHANGED <<clients, workers, req, items, idx, fd, held, disk, dlCalls,
                   returned>>

\* lock's finally: flock(fp, LOCK_UN).
Unlock(t) ==
    /\ pc[t] = "unlock"
    /\ held' = [held EXCEPT ![t] = FALSE]
    /\ pc' = [pc EXCEPT ![t] = "unlink"]
    /\ Silent
    /\ UNCHANGED <<clients, workers, req, items, idx, fd, failed, disk, counts>>

\* lock's finally: unlink(path), then the file object is closed and lock()
\* is left: _download returns the info, or the DownloadError goes up through
\* get_videos, do_GET and __call__, none of which catches it.
Unlink(t) ==
    /\ pc[t] = "unlink"
    /\ lockLink' = Unlinked(TargetLock(t))
    /\ files' = Removed(TargetLock(t))
    /\ fd' = [fd EXCEPT ![t] = 0]
    /\ IF failed[t]
       THEN /\ Finish(t, req[t],
                      Unhandled("DownloadError", YdlDownloadMessage))
            /\ UNCHANGED returned
       ELSE /\ Advance(t)
            /\ Silent
            /\ UNCHANGED <<req, items, failed>>
    /\ UNCHANGED <<clients, workers, held, dirs, dlCalls, dlFails>>

\* do_GET after get_videos returned.
Respond(t) ==
    /\ pc[t] = "respond"
    /\ IF Len(items[t]) # 1
       THEN Finish(t, req[t], ErrorResponse(
                HTTPError(400, "", "playlists not supported yet")))
       ELSE LET video == items[t][1]
                audio_file == VideoPath(video)
            IN IF files[audio_file] = "absent"
               THEN Finish(t, req[t], Unhandled("AssertionError", ""))
               ELSE Finish(t, req[t], OkResponse(video, files[audio_file]))
    /\ UNCHANGED <<clients, workers, fd, held, disk, counts>>

Next ==
    \/ \E t \in Threads, m \in Methods, pi \in PathInfos, qs \in QueryStrings :
            Request(t, m, pi, qs)
    \/ \E t \in Threads : Check(t)
    \/ \E t \in Threads : Open(t)
    \/ \E t \in Threads : Flock(t)
    \/ \E t \in Threads : DownloadWrite(t)
    \/ \E t \in Threads : DownloadOk(t)
    \/ \E t \in Threads : DownloadFail(t)
    \/ \E t \in Threads : Unlock(t)
    \/ \E t \in Threads : Unlink(t)
    \/ \E t \in Threads : Respond(t)

Spec == Init /\ [][Next]_vars

\* The same server without ThreadingMixIn: a request is served to its end
\* before the next one is accepted.
InitSeq == InitWith(MaxRequests, 1)
SpecSeq == InitSeq /\ [][Next]_vars

\* The threaded server with one request more, so that a request can follow
\* two concurrent ones.
InitRetry == InitWith(MaxRequests + 1, MaxRequests + 1)
SpecRetry == InitRetry /\ [][Next]_vars

\* The threaded server with two requests in service at a time, under fair
\* scheduling: a thread that can take a step of its request takes one, flock
\* returns once the lock stays free, and every ydl.download call returns or
\* raises.
Step(t) ==
    \/ Check(t) \/ Open(t) \/ Flock(t) \/ DownloadOk(t) \/ DownloadFail(t)
    \/ Unlock(t) \/ Unlink(t) \/ Respond(t)

InitFair == InitWith(MaxRequests, 2)

SpecFair == InitFair /\ [][Next]_vars /\ \A t \in Threads : WF_vars(Step(t))

\* VideoInfo.path on its own: extract_info builds a VideoInfo from whatever
\* record the collaborator gives (any page URL, extractor, id and title of
\* RawSpace), and get_videos is about to hand it to _download, which joins
\* cache_dir and info.path.
RawSpace ==
    [webpage_url : {"https://yt/watch?v=1", "https://youtu.be/1"},
     extractor : {"youtube", "vimeo"},
     id : {"C0DPdy98e4c", "a"},
     title : {"TEST VIDEO", "OTHER/VIDEO"}]

ResolveAny(t, raw) ==
    /\ pc[t] = "new"
    /\ t <= clients
    /\ t > 1 => pc[t - 1] # "new"
    /\ req' = [req EXCEPT ![t] = [method |-> "GET", url |-> <<"a", "?">>]]
    /\ items' = [items EXCEPT ![t] = <<MkVideoInfo(raw)>>]
    /\ idx' = [idx EXCEPT ![t] = 1]
    /\ pc' = [pc EXCEPT ![t] = "check"]
    /\ Silent
    /\ UNCHANGED <<clients, workers, fd, held, failed, disk, counts>>

NextPath == \E t \in Threads, raw \in RawSpace : ResolveAny(t, raw)

SpecPath == Init /\ [][NextPath]_vars

\* ------------------------------------------------------------------ claims
InGetVideos == {"check", "open", "flock", "downloading", "unlock", "unlink"}
ItemPaths(t) == {VideoPath(i) : i \in Range(items[t])}

\* C1: at most one thread at a time is inside the protected section of
\* lock(path) for the same lock path, hence at most one thread runs the
\* download of a given cache path.
C1_MutualExclusion ==
    \A t, u \in Threads :
        (t # u /\ pc[t] \in InSection /\ pc[u] \in InSection)
            => TargetLock(t) # TargetLock(u)

\* C2: concurrent misses of the same item lead to a single download call:
\* as long as no download of a cache path has failed, the download has been
\* invoked at most once for it.
C2_SingleMaterialization ==
    \A p \in CachePaths : dlFails[p] = 0 => dlCalls[p] <= 1

\* C3: a 200 response carries a file whose materialisation has completed
\* (no download of it having failed, the only unfinished files are those a
\* thread is still materialising).
C3_NoPartialServed ==
    (sent.resp.kind = "ok" /\ \A p \in CachePaths : dlFails[p] = 0)
        => sent.resp.length = "complete"

\* C4: when get_videos has returned, the file of every returned VideoInfo
\* exists, and the assertion of do_GET has never failed.
C4_GetVideosPostcondition ==
    /\ \A t \in Threads :
            pc[t] = "respond" => \A p \in ItemPaths(t) : files[p] # "absent"
    /\ sent.resp.kind = "unhandled" => sent.resp.exc # "AssertionError"

C4_Witness ==
    \E t, u \in Threads :
        /\ pc[t] = "respond" /\ Len(items[t]) = 2
        /\ pc[u] = "downloading" /\ Target(u) \in ItemPaths(t)

\* C5: with sequential requests, a get_videos call all of whose items were
\* returned by an earlier call makes no download call and changes nothing
\* under the cache directory, and every call returns the same VideoInfo for
\* the same cache path.
C5_Idempotence ==
    /\ [](\A p \in CachePaths : \A m, n \in returned[p] : m.info = n.info)
    /\ [][\A t \in Threads :
            (pc[t] \in InGetVideos
             /\ \A p \in ItemPaths(t) : returned[p] # {})
                => UNCHANGED <<dlCalls, dirs, files, lockLink>>]_vars

C5_Witness ==
    \E p \in CachePaths :
        /\ workers = 1
        /\ \E m, n \in returned[p] : m.url # n.url
        /\ dlCalls[p] = 1

\* C6: when no thread is inside lock(path), no file exists at path.
C6_LockCleanup ==
    \A lp \in LockPaths :
        (\A t \in Threads : ~(pc[t] \in InLock /\ TargetLock(t) = lp))
            => lockLink[lp] = 0

C6_Witness ==
    \E p \in CachePaths :
        /\ dlCalls[p] >= 2 /\ dlFails[p] >= 1
        /\ \A t \in Threads : pc[t] \notin InLock
        /\ lockLink[LockPath(p)] = 0

\* C7: while a thread is inside the protected section of lock(path), a file
\* exists at path.
C7_LockFilePresent ==
    \A t \in Threads : pc[t] \in InSection => lockLink[TargetLock(t)] # 0

\* C8: a collaborator failure during a GET with a target is answered with
\* 400, text/plain and the collaborator's message, and never leaves the
\* handler as an unhandled exception.
C8_CollaboratorFailureIs400 ==
    /\ sent.resp.kind = "unhandled" => sent.resp.exc # "DownloadError"
    /\ (sent.req.method = "GET" /\ sent.req.url # <<"?">>
        /\ YdlExtractInfo(sent.req.url).raised)
            => /\ sent.resp.kind = "error"
               /\ sent.resp.status = 400
               /\ sent.resp.ctype = "text/plain"
               /\ sent.resp.body = YdlExtractInfo(sent.req.url).message

\* C9: when _download has propagated a download failure, the target file
\* does not exist.
C9_FailureLeavesNoEntry ==
    [][\A t \in Threads :
        (pc[t] = "unlink" /\ failed[t] /\ pc'[t] = "done")
            => files'[Target(t)] = "absent"]_vars

\* C10: a thread waiting for the lock of one cache path is not blocked by
\* threads that hold locks of other cache paths.
C10_Independence ==
    \A t \in Threads :
        (pc[t] = "flock"
         /\ \A u \in Threads \ {t} : held[u] => Target(u) # Target(t))
            => ENABLED Flock(t)

C10_Witness ==
    \E t, u \in Threads :
        /\ pc[t] = "downloading" /\ pc[u] = "downloading"
        /\ Target(t) # Target(u)


\* C11: a request whose method is not GET is answered with 405 and a
\* plain-text body, whatever its path and query; the step that answers it is
\* the thread's only step, and it resolves nothing, takes no lock, downloads
\* nothing and leaves the cache directory as it was.
C11_MethodNotAllowed ==
    /\ [](sent.req.method \notin {"", "GET"}
            => /\ sent.resp.kind = "error"
               /\ sent.resp.status = 405
               /\ sent.resp.reason = "Method Not Allowed"
               /\ sent.resp.ctype = "text/plain")
    /\ [][\A t \in Threads, m \in Methods \ {"GET"},
              pi \in PathInfos, qs \in QueryStrings :
                Request(t, m, pi, qs)
                    => /\ pc'[t] = "done"
                       /\ sent'.req.method = m
                       /\ sent'.resp.status = 405
                       /\ UNCHANGED <<fd, held, disk, counts>>]_vars

C11_Witness ==
    /\ sent.req.method = "POST"
    /\ sent.req.url = <<"a", "?">>
    /\ sent.resp.kind = "error"
    /\ sent.resp.status = 405
    /\ \E t \in Threads : pc[t] = "downloading"

\* C12: a GET request whose path and query hold nothing but "/" (so that
\* path, "?" and query, stripped of "/" at both ends, carry no target) is
\* answered with 400 and the body "no URL provided"; the step that answers it
\* is the thread's only step: nothing is resolved, locked or downloaded.
C12_NoUrlProvided ==
    [][\A t \in Threads, pi \in PathInfos, qs \in QueryStrings :
          (/\ Request(t, "GET", pi, qs)
           /\ Range(pi) \subseteq {"/"}
           /\ Range(qs) \subseteq {"/"})
              => /\ pc'[t] = "done"
                 /\ sent'.req.method = "GET"
                 /\ sent'.resp.kind = "error"
                 /\ sent'.resp.status = 400
                 /\ sent'.resp.reason = "Bad Request"
                 /\ sent'.resp.ctype = "text/plain"
                 /\ sent'.resp.body = "no URL provided"
                 /\ UNCHANGED <<fd, held, disk, counts>>]_vars

C12_Witness ==
    /\ sent.req = [method |-> "GET", url |-> <<"?">>]
    /\ sent.resp.kind = "error"
    /\ sent.resp.body = "no URL provided"
    /\ \E t \in Threads : pc[t] = "done"
    /\ \A p \in CachePaths : dlCalls[p] = 0

\* C13: a GET request whose target resolves to several items is answered
\* with 400 and the body that says playlists are not supported, never with
\* 200; a 200 answers only a request whose target resolved to one item.
C13_PlaylistRejected ==
    /\ (/\ sent.req.method = "GET"
        /\ sent.req.url \notin {<<>>, <<"?">>}
        /\ ExtractInfo(sent.req.url).raised = ""
        /\ Len(ExtractInfo(sent.req.url).infos) > 1)
            => /\ sent.resp.kind = "error"
               /\ sent.resp.status = 400
               /\ sent.resp.body = "playlists not supported yet"
    /\ sent.resp.kind = "ok"
            => /\ ExtractInfo(sent.req.url).raised = ""
               /\ Len(ExtractInfo(sent.req.url).infos) = 1

\* C14: the relative cache path of a VideoInfo is decided by its provider
\* and id alone: two VideoInfo with the same provider and id have the same
\* path whatever their url and title, and the path is <provider>/<id>.mp3,
\* youtube/C0DPdy98e4c.mp3 for provider youtube and id C0DPdy98e4c.
C14_PathDeterminism ==
    \A t, u \in Threads :
        (pc[t] = "check" /\ pc[u] = "check")
            => /\ (/\ Info(t).provider = Info(u).provider
                    /\ Info(t).id = Info(u).id) => Target(t) = Target(u)
               /\ Target(t) = [dir |-> Info(t).provider, stem |-> Info(t).id,
                                suffix |-> "mp3"]
               /\ (Info(t).provider = "youtube" /\ Info(t).id = "C0DPdy98e4c")
                    => Target(t) = [dir |-> "youtube", stem |-> "C0DPdy98e4c",
                                    suffix |-> "mp3"]

C14_Witness ==
    \E t, u \in Threads :
        /\ pc[t] = "check" /\ pc[u] = "check"
        /\ Info(t).provider = "youtube" /\ Info(t).id = "C0DPdy98e4c"
        /\ Info(u).provider = "youtube" /\ Info(u).id = "C0DPdy98e4c"
        /\ Info(t).url # Info(u).url
        /\ Info(t).title # Info(u).title
        /\ Target(t) = Target(u)

\* C15: under fair scheduling and with collaborator calls that end, a thread
\* that calls lock(path) enters its protected section, and a thread inside
\* lock(path) leaves it with the lock released, also when a holder fails and
\* when get_videos takes one lock after the other for a playlist; in no
\* state are all the threads that serve a request blocked.
C15_Progress ==
    /\ \A t \in Threads :
        /\ pc[t] = "open" ~> pc[t] \in InSection
        /\ pc[t] \in InLock ~> (pc[t] \notin InLock /\ ~held[t] /\ fd[t] = 0)
    /\ [](Active # {} => \E t \in Active : ENABLED Step(t))

C15_Witness ==
    \E t, u \in Threads :
        /\ pc[t] = "flock" /\ ~FlockFree(t)
        /\ pc[u] = "unlock" /\ failed[u] /\ fd[u] = fd[t]
        /\ Len(items[u]) = 2

\* C16: when _download finds the target file present it creates no lock
\* file, opens and locks nothing, calls no download and goes straight on to
\* the next item or to the answer; the existence check is never blocked,
\* also while another thread holds the lock of the same path.
C16_LockFreeHit ==
    /\ [](\A t \in Threads : pc[t] = "check" => ENABLED Check(t))
    /\ [][\A t \in Threads :
              (/\ pc[t] = "check"
               /\ files[Target(t)] # "absent"
               /\ <<pc[t], idx[t]>>' # <<pc[t], idx[t]>>)
                  => /\ pc'[t] \in {"check", "respond"}
                     /\ fd'[t] = 0 /\ ~held'[t]
                     /\ UNCHANGED <<files, lockLink, dlCalls, dlFails>>]_vars

C16_Witness ==
    \E t, u \in Threads :
        /\ pc[t] = "respond" /\ Len(items[t]) = 1
        /\ pc[u] = "downloading" /\ held[u]
        /\ Target(u) = VideoPath(items[t][1])
        /\ dlCalls[Target(u)] = 1
        /\ lockLink[TargetLock(u)] # 0

\* C17: a request answered with an error status (400 or 405) has caused no
\* download and leaves the cache files as they were when it arrived; stated
\* for the first request of a server that serves one request at a time: its
\* cache was empty when the request arrived, so it is empty after the error
\* response and no download call has been made.
C17_ErrorLeavesCache ==
    (/\ sent.resp.kind = "error"
     /\ sent.resp.status \in {400, 405}
     /\ pc[1] = "done"
     /\ \A t \in Threads \ {1} : pc[t] = "new")
        => /\ \A p \in CachePaths : files[p] = "absent"
           /\ \A p \in CachePaths : dlCalls[p] = 0

\* C18: a cache file that exists exists in every later state: no step
\* removes one, and the name that lock() unlinks is never that of a cache
\* file.
C18_CacheNeverRemoved ==
    /\ [](\A t \in Threads : pc[t] \in InLock => TargetLock(t) \notin CachePaths)
    /\ [][\A p \in CachePaths : files[p] # "absent" => files'[p] # "absent"]_vars

C18_Witness ==
    \E p \in CachePaths, t \in Threads :
        /\ files[p] = "partial"
        /\ dlFails[p] = 1
        /\ lockLink[LockPath(p)] = 0
        /\ pc[t] = "done"
        /\ sent.resp.kind = "unhandled"
====
